---- MODULE Spec2Model ----
(***************************************************************************)
(* Model of the expression pretty-printer of src/src/syntax/expr.rs.       *)
(*                                                                         *)
(* Text is a sequence of one-character strings, so that two renderings are *)
(* equal exactly when they are byte-identical.  A Printer is its buffer.   *)
(* An AST value is a record tagged by `kind` (Expr), `akind` (Argument) or *)
(* `nkind` (Node); Spanned wrappers carry no payload the printer reads and *)
(* are left out.  A String (Expr::Str) is a sequence of code points, since  *)
(* its Debug form depends on the code point of every character.            *)
(***************************************************************************)
EXTENDS Integers, Sequences, FiniteSets

VARIABLES expr, part, op, chained, p, pushes

vars == <<expr, part, op, chained, p, pushes>>

(***************************************************************************)
(* Bounds of the input families.                                           *)
(***************************************************************************)
MaxOps == 2
MaxElems == 3
MaxHead == 2
MaxChain == 2

(***************************************************************************)
(* Text helpers.                                                           *)
(***************************************************************************)
RECURSIVE Concat(_)
Concat(ss) == IF ss = <<>> THEN <<>> ELSE Head(ss) \o Concat(Tail(ss))

Front(s) == SubSeq(s, 1, Len(s) - 1)

Last(s) == s[Len(s)]

StartsWith(s, pre) == Len(s) >= Len(pre) /\ SubSeq(s, 1, Len(pre)) = pre

EndsWith(s, suf) ==
    Len(s) >= Len(suf) /\ SubSeq(s, Len(s) - Len(suf) + 1, Len(s)) = suf

\* Printer::push_str: append to the buffer.
push_str(buf, s) == buf \o s

\* Printer::join: the items' renderings, `sep` between neighbours.  The
\* per-item renderer is applied by the caller: texts[i] is the i-th item
\* rendered.
RECURSIVE join(_, _)
join(texts, sep) ==
    IF texts = <<>> THEN <<>>
    ELSE IF Len(texts) = 1 THEN texts[1]
    ELSE texts[1] \o sep \o join(Tail(texts), sep)

(***************************************************************************)
(* Scalar formatting (Rust's Display for i64, bool, f64; Debug for str).   *)
(***************************************************************************)
Digit(d) == <<"0", "1", "2", "3", "4", "5", "6", "7", "8", "9">>[d + 1]

RECURSIVE NatDisplay(_)
NatDisplay(n) ==
    IF n < 10 THEN <<Digit(n)>> ELSE NatDisplay(n \div 10) \o <<Digit(n % 10)>>

IntDisplay(i) == IF i < 0 THEN <<"-">> \o NatDisplay(-i) ELSE NatDisplay(i)

BoolDisplay(b) ==
    IF b THEN <<"t", "r", "u", "e">> ELSE <<"f", "a", "l", "s", "e">>

\* A float is held in tenths (25 is 2.5): Display prints the shortest decimal
\* that reads back, so 2.50 prints 2.5 and 100.0 prints 100.
FloatDisplay(t) ==
    LET a == IF t < 0 THEN -t ELSE t
        sign == IF t < 0 THEN <<"-">> ELSE <<>>
        frac == IF a % 10 = 0 THEN <<>> ELSE <<".", Digit(a % 10)>>
    IN sign \o NatDisplay(a \div 10) \o frac

\* Lower-case hexadecimal, as {:x} prints it.
HexDigit(d) ==
    <<"0", "1", "2", "3", "4", "5", "6", "7", "8", "9", "a", "b", "c", "d",
      "e", "f">>[d + 1]

RECURSIVE HexDisplay(_)
HexDisplay(n) ==
    IF n < 16 THEN <<HexDigit(n)>>
    ELSE HexDisplay(n \div 16) \o <<HexDigit(n % 16)>>

\* {:02x} of a u8.
Hex02(n) == <<HexDigit(n \div 16), HexDigit(n % 16)>>

\* The printable ASCII characters, code points 32 (space) to 126 (~).  A
\* TLA+ string cannot hold the grave accent (96), which has no entry and is
\* not part of the modelled domain.
AsciiPrintable ==
    <<" ", "!", "\"", "#", "$", "%", "&", "'", "(", ")", "*", "+", ",", "-",
      ".", "/", "0", "1", "2", "3", "4", "5", "6", "7", "8", "9", ":", ";",
      "<", "=", ">", "?", "@", "A", "B", "C", "D", "E", "F", "G", "H", "I",
      "J", "K", "L", "M", "N", "O", "P", "Q", "R", "S", "T", "U", "V", "W",
      "X", "Y", "Z", "[", "\\", "]", "^", "_", "a", "b", "c", "d", "e",
      "f", "g", "h", "i", "j", "k", "l", "m", "n", "o", "p", "q", "r", "s",
      "t", "u", "v", "w", "x", "y", "z", "{", "|", "}", "~">>

\* Debug for str escapes one character (a code point) at a time: \0, \t, \n,
\* \r, the backslash and the double quote get a backslash escape (the single
\* quote does not), a printable character stands for itself and every other
\* one is written \u{hex}.  Code points 0 to 160 but 96 are covered: up to
\* there the printable ones are exactly 32 to 126.
EscapeDebug(c) ==
    CASE c = 0 -> <<"\\", "0">>
      [] c = 9 -> <<"\\", "t">>
      [] c = 10 -> <<"\\", "n">>
      [] c = 13 -> <<"\\", "r">>
      [] c = 34 -> <<"\\", "\"">>
      [] c = 92 -> <<"\\", "\\">>
      [] c \in 32..95 /\ c \notin {34, 92} -> <<AsciiPrintable[c - 31]>>
      [] c \in 97..126 -> <<AsciiPrintable[c - 32]>>
      [] c \in (1..31 \cup 127..160) \ {9, 10, 13} ->
            <<"\\", "u", "{">> \o HexDisplay(c) \o <<"}">>

RECURSIVE StrDebugBody(_)
StrDebugBody(s) ==
    IF s = <<>> THEN <<>> ELSE EscapeDebug(Head(s)) \o StrDebugBody(Tail(s))

StrDebug(s) == <<"\"">> \o StrDebugBody(s) \o <<"\"">>

\* Display of geom::Unit and of color::RgbaColor.
UnitDisplay(u) ==
    CASE u = "Pt" -> <<"p", "t">>
      [] u = "Mm" -> <<"m", "m">>
      [] u = "Cm" -> <<"c", "m">>
      [] u = "In" -> <<"i", "n">>

ColorDisplay(c) ==
    <<"#">> \o Hex02(c.r) \o Hex02(c.g) \o Hex02(c.b)
    \o (IF c.a # 255 THEN Hex02(c.a) ELSE <<>>)

(***************************************************************************)
(* AST constructors.                                                       *)
(***************************************************************************)
Expr_None == [kind |-> "None"]
Expr_Ident(v) == [kind |-> "Ident", name |-> v]
Expr_Bool(v) == [kind |-> "Bool", b |-> v]
Expr_Int(v) == [kind |-> "Int", i |-> v]
Expr_Float(v) == [kind |-> "Float", f |-> v]
Expr_Length(v, u) == [kind |-> "Length", f |-> v, unit |-> u]
Expr_Percent(v) == [kind |-> "Percent", f |-> v]
Expr_Color(v) == [kind |-> "Color", color |-> v]
Expr_Str(v) == [kind |-> "Str", s |-> v]
Expr_Call(n, a) == [kind |-> "Call", name |-> n, args |-> a]
Expr_Unary(o, e) == [kind |-> "Unary", op |-> o, expr |-> e]
Expr_Binary(l, o, r) == [kind |-> "Binary", lhs |-> l, op |-> o, rhs |-> r]
Expr_Array(xs) == [kind |-> "Array", items |-> xs]
Expr_Dict(ps) == [kind |-> "Dict", pairs |-> ps]
Expr_Content(t) == [kind |-> "Content", tree |-> t]

Argument_Pos(e) == [akind |-> "Pos", expr |-> e]
Argument_Named(n) == [akind |-> "Named", named |-> n]
Named(n, e) == [name |-> n, expr |-> e]

RgbaColor(r, g, b, a) == [r |-> r, g |-> g, b |-> b, a |-> a]
Units == {"Pt", "Mm", "Cm", "In"}

Node_Text(t) == [nkind |-> "Text", text |-> t]
Node_Space == [nkind |-> "Space"]
Node_Expr(e) == [nkind |-> "Expr", expr |-> e]

UnOps == {"Neg"}
BinOps == {"Add", "Sub", "Mul", "Div"}

\* The slice pattern [Spanned { v: Node::Expr(Expr::Call(call)), .. }].
IsSingleCall(tree) ==
    /\ Len(tree) = 1
    /\ tree[1].nkind = "Expr"
    /\ tree[1].expr.kind = "Call"

\* The slice pattern [head @ .., Argument::Pos(Spanned { v: Expr::Content(_) })].
HasTrailingContent(args) ==
    /\ args # <<>>
    /\ Last(args).akind = "Pos"
    /\ Last(args).expr.kind = "Content"

(***************************************************************************)
(* The printer.  One operator per Pretty impl or free function; each       *)
(* returns the text the code pushes onto the Printer.                      *)
(***************************************************************************)
RECURSIVE Expr_pretty(_), pretty_content_expr(_), ExprCall_pretty(_),
          pretty_bracket_call_pushes(_, _), pretty_bracket_call(_, _),
          ExprArgs_pretty(_), Argument_pretty(_), Named_pretty(_),
          ExprUnary_pretty(_), ExprBinary_pretty(_), ExprArray_pretty(_),
          ExprDict_pretty(_), Tree_pretty(_), Node_pretty(_),
          pretty_expr_node(_)

\* The closures |item, p| item.pretty(p) handed to Printer::join, applied to
\* every item.
EachArgument(args) == [i \in 1..Len(args) |-> Argument_pretty(args[i])]
EachExpr(array) == [i \in 1..Len(array) |-> Expr_pretty(array[i])]
EachNamed(dict) == [i \in 1..Len(dict) |-> Named_pretty(dict[i])]
EachNode(tree) == [i \in 1..Len(tree) |-> Node_pretty(tree[i])]

UnOp_pretty(o) == CASE o = "Neg" -> <<"-">>

BinOp_pretty(o) ==
    CASE o = "Add" -> <<"+">>
      [] o = "Sub" -> <<"-">>
      [] o = "Mul" -> <<"*">>
      [] o = "Div" -> <<"/">>

Expr_pretty(e) ==
    CASE e.kind = "None" -> <<"n", "o", "n", "e">>
      [] e.kind = "Ident" -> e.name
      [] e.kind = "Bool" -> BoolDisplay(e.b)
      [] e.kind = "Int" -> IntDisplay(e.i)
      [] e.kind = "Float" -> FloatDisplay(e.f)
      [] e.kind = "Length" -> FloatDisplay(e.f) \o UnitDisplay(e.unit)
      [] e.kind = "Percent" -> FloatDisplay(e.f) \o <<"%">>
      [] e.kind = "Color" -> ColorDisplay(e.color)
      [] e.kind = "Str" -> StrDebug(e.s)
      [] e.kind = "Call" -> ExprCall_pretty(e)
      [] e.kind = "Unary" -> ExprUnary_pretty(e)
      [] e.kind = "Binary" -> ExprBinary_pretty(e)
      [] e.kind = "Array" -> ExprArray_pretty(e.items)
      [] e.kind = "Dict" -> ExprDict_pretty(e.pairs)
      [] e.kind = "Content" -> pretty_content_expr(e.tree)

\* Faulty variant of pretty_content_expr: the single-call case dropped.
pretty_content_expr_braced(tree) == <<"{">> \o Tree_pretty(tree) \o <<"}">>

pretty_content_expr(tree) ==
    IF IsSingleCall(tree)
    THEN pretty_bracket_call(tree[1].expr, FALSE)
    ELSE <<"{">> \o Tree_pretty(tree) \o <<"}">>

\* Faulty variant of ExprCall::pretty: a call in expression position
\* rendered in bracket form.
ExprCall_pretty_bracket(call) == pretty_bracket_call(call, FALSE)

ExprCall_pretty(call) ==
    call.name \o <<"(">> \o ExprArgs_pretty(call.args) \o <<")">>

\* One entry per push onto the Printer made while pretty_bracket_call runs:
\* own = TRUE for a push_str of pretty_bracket_call itself (chained
\* invocations included), own = FALSE for the text a nested renderer
\* (leading arguments, body content) produced.
Own(s) == [own |-> TRUE, s |-> s]
Nested(s) == [own |-> FALSE, s |-> s]

\* if chained { " | " } else { "[" }
bracket_open(chain) ==
    IF chain THEN <<Own(<<" ", "|", " ">>)>> ELSE <<Own(<<"[">>)>>

\* Faulty variant of bracket_previous: the leading arguments separated by
\* spaces only.
bracket_previous_spaces(head) ==
    IF head # <<>>
    THEN <<Own(<<" ">>), Nested(join(EachArgument(head), <<" ">>))>>
    ELSE <<>>

\* Previous arguments: if !head.is_empty() { " "; join(head, ", ") }
bracket_previous(head) ==
    IF head # <<>>
    THEN <<Own(<<" ">>), Nested(join(EachArgument(head), <<",", " ">>))>>
    ELSE <<>>

\* Faulty variants of bracket_chain: the inner call rendered as a fresh
\* bracket call (the chained flag dropped); the outer level falling through
\* to its own closing "]" instead of returning.
bracket_chain_unflagged(inner) == pretty_bracket_call_pushes(inner, FALSE)

bracket_chain_noreturn(inner) ==
    pretty_bracket_call_pushes(inner, TRUE) \o <<Own(<<"]">>)>>

\* return pretty_bracket_call(call, p, true): the inner call's pushes end
\* the invocation, the outer level pushes nothing after them.
bracket_chain(inner) == pretty_bracket_call_pushes(inner, TRUE)

\* "][" and the content, then the closing "]" of the function's last line.
bracket_body(content) ==
    <<Own(<<"]", "[">>), Nested(Tree_pretty(content)), Own(<<"]">>)>>

\* Faulty variant of bracket_args: the is_empty test dropped.
bracket_args_unguarded(args) ==
    <<Own(<<" ">>), Nested(ExprArgs_pretty(args))>>

\* else if !call.args.v.is_empty() { " "; args.pretty }
bracket_args(args) ==
    IF args # <<>>
    THEN <<Own(<<" ">>), Nested(ExprArgs_pretty(args))>>
    ELSE <<>>

pretty_bracket_call_pushes(call, chain) ==
    LET start == bracket_open(chain) \o <<Own(call.name)>>
        args == call.args
    IN IF HasTrailingContent(args)
       THEN LET head == Front(args)
                content == Last(args).expr.tree
            IN IF IsSingleCall(content)
               THEN start \o bracket_previous(head)
                    \o bracket_chain(content[1].expr)
               ELSE start \o bracket_previous(head) \o bracket_body(content)
       ELSE start \o bracket_args(args) \o <<Own(<<"]">>)>>

pretty_bracket_call(call, chain) ==
    LET ps == pretty_bracket_call_pushes(call, chain)
    IN Concat([i \in 1..Len(ps) |-> ps[i].s])

ExprArgs_pretty(args) == join(EachArgument(args), <<",", " ">>)

Argument_pretty(a) ==
    CASE a.akind = "Pos" -> Expr_pretty(a.expr)
      [] a.akind = "Named" -> Named_pretty(a.named)

Named_pretty(named) == named.name \o <<":", " ">> \o Expr_pretty(named.expr)

ExprUnary_pretty(unary) == UnOp_pretty(unary.op) \o Expr_pretty(unary.expr)

ExprBinary_pretty(binary) ==
    Expr_pretty(binary.lhs) \o <<" ">> \o BinOp_pretty(binary.op) \o <<" ">>
    \o Expr_pretty(binary.rhs)

\* Faulty variant of ExprArray::pretty: no trailing comma for one element.
ExprArray_pretty_nocomma(array) ==
    <<"(">> \o join(EachExpr(array), <<",", " ">>) \o <<")">>

ExprArray_pretty(array) ==
    <<"(">> \o join(EachExpr(array), <<",", " ">>)
    \o (IF Len(array) = 1 THEN <<",">> ELSE <<>>) \o <<")">>

\* Faulty variant of ExprDict::pretty: no colon for the empty dictionary.
ExprDict_pretty_nocolon(dict) ==
    <<"(">> \o join(EachNamed(dict), <<",", " ">>) \o <<")">>

ExprDict_pretty(dict) ==
    <<"(">>
    \o (IF dict = <<>> THEN <<":">> ELSE join(EachNamed(dict), <<",", " ">>))
    \o <<")">>

\* Tree and Node rendering live in the node module, outside expr.rs.
Tree_pretty(tree) == join(EachNode(tree), <<>>)

Node_pretty(node) ==
    CASE node.nkind = "Text" -> node.text
      [] node.nkind = "Space" -> <<" ">>
      [] node.nkind = "Expr" -> pretty_expr_node(node.expr)

pretty_expr_node(e) ==
    CASE e.kind = "Call" -> pretty_bracket_call(e, FALSE)
      [] e.kind = "Content" -> Tree_pretty(e.tree)
      [] OTHER -> <<"{">> \o Expr_pretty(e) \o <<"}">>

(***************************************************************************)
(* Input families: the trees a print call may be handed.                   *)
(***************************************************************************)
SeqsUpTo(S, n) == UNION {[1..k -> S] : k \in 0..n}

Letters == <<"a", "b", "c", "d", "e", "g">>
Hi == <<"H", "i">>
func == <<"f", "u", "n", "c">>
percent == <<"p", "e", "r", "c", "e", "n", "t">>

CallF == Expr_Call(<<"f">>, <<>>)
ContentF == Expr_Content(<<Node_Expr(CallF)>>)

\* Operator trees with exactly n operator nodes over the atoms 1 and 2.
Atoms == {Expr_Int(1), Expr_Int(2)}

RECURSIVE OpTreesOfSize(_)
OpTreesOfSize(n) ==
    IF n = 0 THEN Atoms
    ELSE {Expr_Unary(o, e) : o \in UnOps, e \in OpTreesOfSize(n - 1)}
         \cup UNION {{Expr_Binary(l, o, r) :
                        l \in OpTreesOfSize(k), o \in BinOps,
                        r \in OpTreesOfSize(n - 1 - k)} : k \in 0..(n - 1)}

OpTrees == UNION {OpTreesOfSize(n) : n \in 0..MaxOps}

Literals ==
    {Expr_None, Expr_Ident(<<"x">>), Expr_Bool(TRUE), Expr_Bool(FALSE),
     Expr_Int(25), Expr_Int(-5), Expr_Float(25), Expr_Float(1000),
     Expr_Percent(500), Expr_Length(120, "Pt"), Expr_Length(30, "Cm"),
     Expr_Color(RgbaColor(255, 255, 255, 255)),
     Expr_Color(RgbaColor(255, 204, 238, 128)),
     Expr_Str(<<104, 105, 10>>), Expr_Str(<<97, 12, 98>>),
     Expr_Str(<<34, 39, 92, 0, 27, 127, 160>>)}

ArrayElems ==
    {Expr_Int(1), Expr_Int(2), Expr_Int(3), Expr_Unary("Neg", Expr_Int(5)),
     Expr_Ident(func)}

Arrays == {Expr_Array(xs) : xs \in SeqsUpTo(ArrayElems, MaxElems)}

DictPairs ==
    {Named(k, v) : k \in {func, percent},
                   v \in {Expr_Percent(50), ContentF, Expr_Int(1)}}

Dicts == {Expr_Dict(ps) : ps \in SeqsUpTo(DictPairs, MaxElems)}

\* Content trees that are not a single call: empty, one non-call node, two
\* nodes (a call among them), nested content.
PlainTrees ==
    {<<>>, <<Node_Text(Hi)>>, <<Node_Expr(Expr_Int(1))>>,
     <<Node_Expr(CallF), Node_Space>>, <<Node_Expr(CallF), Node_Expr(CallF)>>,
     <<Node_Expr(Expr_Content(<<Node_Text(Hi)>>))>>}

\* Ends of an argument list that are not a positional single-call content.
PlainTails ==
    {<<>>, <<Argument_Pos(Expr_Int(3))>>,
     <<Argument_Pos(Expr_Array(<<Expr_Int(1)>>))>>,
     <<Argument_Named(Named(<<"k">>, Expr_Content(<<Node_Text(Hi)>>)))>>,
     <<Argument_Named(Named(<<"k">>, ContentF))>>}
    \cup {<<Argument_Pos(Expr_Content(t))>> : t \in PlainTrees}

HeadArgs ==
    {Argument_Pos(Expr_Int(1)), Argument_Named(Named(<<"k">>, Expr_Int(2)))}

\* Calls at nesting level l (0 is the outermost), named by their level, with
\* up to maxhead leading arguments; nested calls carry at most one.
RECURSIVE CallsAt(_, _)
CallsAt(l, maxhead) ==
    LET inner ==
            IF l < MaxChain
            THEN {<<Argument_Pos(Expr_Content(<<Node_Expr(c)>>))>> :
                    c \in CallsAt(l + 1, 1)}
            ELSE {}
    IN {Expr_Call(<<Letters[l + 1]>>, h \o t) :
          h \in SeqsUpTo(HeadArgs, maxhead), t \in PlainTails \cup inner}

Calls == CallsAt(0, MaxHead) \cup UNION {CallsAt(l, 1) : l \in 1..MaxChain}

Contents ==
    {Expr_Content(t) : t \in PlainTrees}
    \cup {Expr_Content(<<Node_Expr(c)>>) : c \in CallsAt(1, 1)}

\* The trees of the test suite of expr.rs.
CallVF == Expr_Call(<<"v">>, <<Argument_Pos(ContentF)>>)
CallVF1 ==
    Expr_Call(<<"v">>, <<Argument_Pos(ContentF), Argument_Pos(Expr_Int(1))>>)
CallFuncNeg2 ==
    Expr_Call(func, <<Argument_Pos(Expr_Unary("Neg", Expr_Int(2)))>>)

Examples ==
    {CallVF, CallVF1, CallFuncNeg2, ContentF,
     Expr_Binary(Expr_Int(1), "Add", CallFuncNeg2)}

Inputs ==
    Literals \cup OpTrees \cup Arrays \cup Dicts \cup Calls \cup Contents
    \cup Examples

(***************************************************************************)
(* Inputs of the Pretty impls that do not take an Expr.                    *)
(***************************************************************************)
NoPart == [type |-> "Expr"]

Parts ==
    {[type |-> "Named", named |-> n] : n \in DictPairs}
    \cup {[type |-> "Argument", arg |-> a] :
            a \in HeadArgs \cup {Argument_Pos(ContentF)}}
    \cup {[type |-> "ExprArgs", args |-> as] :
            as \in SeqsUpTo(HeadArgs, MaxHead)}
    \cup {[type |-> "UnOp", unop |-> o] : o \in UnOps}
    \cup {[type |-> "BinOp", binop |-> o] : o \in BinOps}

(***************************************************************************)
(* The state machine: a print call is handed a value and a fresh Printer,  *)
(* and one of the public entry points renders the value into it.  The      *)
(* value is an Expr (expr) or, for the impls of the other types, a part.   *)
(***************************************************************************)
Init ==
    /\ \/ expr \in Inputs /\ part = NoPart
       \/ expr = Expr_None /\ part \in Parts
    /\ op = "idle"
    /\ chained = FALSE
    /\ p = <<>>
    /\ pushes = <<>>

\* The entry point `name` has pushed `text`.
Rendered(name, text) ==
    /\ op' = name
    /\ p' = push_str(p, text)
    /\ UNCHANGED <<expr, part, chained, pushes>>

\* Expr::pretty(&self, p)
ExprPretty ==
    /\ op = "idle"
    /\ part.type = "Expr"
    /\ Rendered("Expr_pretty", Expr_pretty(expr))

\* pretty_content_expr(tree, p)
PrettyContentExpr ==
    /\ op = "idle"
    /\ part.type = "Expr"
    /\ expr.kind = "Content"
    /\ Rendered("pretty_content_expr", pretty_content_expr(expr.tree))

\* pretty_bracket_call(call, p, chained)
PrettyBracketCall ==
    /\ op = "idle"
    /\ part.type = "Expr"
    /\ expr.kind = "Call"
    /\ \E c \in BOOLEAN :
          /\ chained' = c
          /\ pushes' = pretty_bracket_call_pushes(expr, c)
          /\ p' = push_str(p, pretty_bracket_call(expr, c))
    /\ op' = "pretty_bracket_call"
    /\ UNCHANGED <<expr, part>>

\* ExprCall::pretty(&self, p)
ExprCallPretty ==
    /\ op = "idle"
    /\ part.type = "Expr"
    /\ expr.kind = "Call"
    /\ Rendered("ExprCall_pretty", ExprCall_pretty(expr))

\* ExprUnary::pretty(&self, p)
ExprUnaryPretty ==
    /\ op = "idle"
    /\ part.type = "Expr"
    /\ expr.kind = "Unary"
    /\ Rendered("ExprUnary_pretty", ExprUnary_pretty(expr))

\* ExprBinary::pretty(&self, p)
ExprBinaryPretty ==
    /\ op = "idle"
    /\ part.type = "Expr"
    /\ expr.kind = "Binary"
    /\ Rendered("ExprBinary_pretty", ExprBinary_pretty(expr))

\* ExprArray::pretty(&self, p)
ExprArrayPretty ==
    /\ op = "idle"
    /\ part.type = "Expr"
    /\ expr.kind = "Array"
    /\ Rendered("ExprArray_pretty", ExprArray_pretty(expr.items))

\* ExprDict::pretty(&self, p)
ExprDictPretty ==
    /\ op = "idle"
    /\ part.type = "Expr"
    /\ expr.kind = "Dict"
    /\ Rendered("ExprDict_pretty", ExprDict_pretty(expr.pairs))

\* Named::pretty(&self, p)
NamedPretty ==
    /\ op = "idle"
    /\ part.type = "Named"
    /\ Rendered("Named_pretty", Named_pretty(part.named))

\* Argument::pretty(&self, p)
ArgumentPretty ==
    /\ op = "idle"
    /\ part.type = "Argument"
    /\ Rendered("Argument_pretty", Argument_pretty(part.arg))

\* <Vec<Argument> as Pretty>::pretty(&self, p)
ExprArgsPretty ==
    /\ op = "idle"
    /\ part.type = "ExprArgs"
    /\ Rendered("ExprArgs_pretty", ExprArgs_pretty(part.args))

\* UnOp::pretty(&self, p)
UnOpPretty ==
    /\ op = "idle"
    /\ part.type = "UnOp"
    /\ Rendered("UnOp_pretty", UnOp_pretty(part.unop))

\* BinOp::pretty(&self, p)
BinOpPretty ==
    /\ op = "idle"
    /\ part.type = "BinOp"
    /\ Rendered("BinOp_pretty", BinOp_pretty(part.binop))

Next ==
    \/ ExprPretty
    \/ PrettyContentExpr
    \/ PrettyBracketCall
    \/ ExprCallPretty
    \/ ExprUnaryPretty
    \/ ExprBinaryPretty
    \/ ExprArrayPretty
    \/ ExprDictPretty
    \/ NamedPretty
    \/ ArgumentPretty
    \/ ExprArgsPretty
    \/ UnOpPretty
    \/ BinOpPretty

Spec == Init /\ [][Next]_vars

(***************************************************************************)
(* Vocabulary of the properties.                                           *)
(***************************************************************************)
Pipe == <<" ", "|", " ">>
CommaSpace == <<",", " ">>

\* A call whose last argument is a positional content block holding exactly
\* one node, a call; and that inner call.
IsChainCall(e) ==
    /\ e.kind = "Call"
    /\ HasTrailingContent(e.args)
    /\ IsSingleCall(Last(e.args).expr.tree)

InnerCall(e) == Last(e.args).expr.tree[1].expr

\* The calls linked below e by chain form, and the last call of the chain.
RECURSIVE ChainLinks(_)
ChainLinks(e) == IF IsChainCall(e) THEN 1 + ChainLinks(InnerCall(e)) ELSE 0

RECURSIVE ChainEnd(_)
ChainEnd(e) == IF IsChainCall(e) THEN ChainEnd(InnerCall(e)) ELSE e

\* The texts pretty_bracket_call pushed itself, in order.
OwnPushes == 
    LET own == SelectSeq(pushes, LAMBDA x : x.own)
    IN [i \in 1..Len(own) |-> own[i].s]

Count(seq, x) == Cardinality({i \in 1..Len(seq) : seq[i] = x})

Opening(c) == IF c THEN Pipe ELSE <<"[">>

\* Leading arguments as the code renders them: a space, then the arguments
\* joined by ", ".
Leading(e) ==
    IF Len(e.args) > 1
    THEN <<" ">> \o join(EachArgument(Front(e.args)), CommaSpace)
    ELSE <<>>

CallABC ==
    Expr_Call(<<"a">>, <<Argument_Pos(Expr_Content(<<Node_Expr(
        Expr_Call(<<"b">>, <<Argument_Pos(Expr_Content(<<Node_Expr(
            Expr_Call(<<"c">>, <<>>))>>))>>))>>))>>)

(***************************************************************************)
(* C1 (chain form): pretty_bracket_call on a call whose last argument is a *)
(* positional content block with exactly one node, a call, emits the outer *)
(* name and leading arguments, then the inner call rendered by the same    *)
(* algorithm with chained = true, which starts " | " and the inner name;   *)
(* no "[" is pushed for an inner call and no "][" body for a chaining      *)
(* level; one " | " is pushed per level of nesting.  [v | f] and           *)
(* [a | b | c] are the renderings of the two- and three-level examples.    *)
(***************************************************************************)
C1_ChainForm ==
    (op = "pretty_bracket_call" /\ IsChainCall(expr)) =>
        LET inner == pretty_bracket_call(InnerCall(expr), TRUE)
        IN /\ p = Opening(chained) \o expr.name \o Leading(expr) \o inner
           /\ StartsWith(inner, Pipe \o InnerCall(expr).name)
           /\ Count(OwnPushes, Pipe)
                = ChainLinks(expr) + (IF chained THEN 1 ELSE 0)
           /\ Count(OwnPushes, <<"[">>) = (IF chained THEN 0 ELSE 1)
           /\ Count(OwnPushes, <<"]", "[">>)
                = (IF HasTrailingContent(ChainEnd(expr).args) THEN 1 ELSE 0)
           /\ (expr = CallVF /\ ~chained
                => p = <<"[", "v", " ", "|", " ", "f", "]">>)
           /\ (expr = CallABC /\ ~chained
                => p = <<"[", "a", " ", "|", " ", "b", " ", "|", " ", "c", "]">>)

\* A three-level chain has been rendered from the top.
C1_Witness ==
    /\ op = "pretty_bracket_call"
    /\ ~chained
    /\ expr = CallABC
    /\ p = <<"[", "a", " ", "|", " ", "b", " ", "|", " ", "c", "]">>

(***************************************************************************)
(* C10 (bracket balance): the square brackets a top-level                  *)
(* pretty_bracket_call(call, chained = false) pushes itself are balanced   *)
(* and well nested: "[" is its first push and the only "[", a body pushes  *)
(* "][" (close, reopen), and its last push is the only "]", also when the  *)
(* outer levels returned into the chained inner call; chained invocations  *)
(* push no "[".                                                            *)
(***************************************************************************)
OwnBrackets ==
    SelectSeq(OwnPushes, LAMBDA x : x \in {<<"[">>, <<"]", "[">>, <<"]">>})

\* The nesting depth after the bracket pushes bs, starting from depth d;
\* -1 once a close finds nothing open.
RECURSIVE DepthAfter(_, _)
DepthAfter(bs, d) ==
    IF bs = <<>> THEN d
    ELSE IF Head(bs) = <<"[">> THEN DepthAfter(Tail(bs), d + 1)
    ELSE IF d < 1 THEN -1
    ELSE IF Head(bs) = <<"]">> THEN DepthAfter(Tail(bs), d - 1)
    ELSE DepthAfter(Tail(bs), d)

C10_BracketBalance ==
    (op = "pretty_bracket_call") =>
        IF chained
        THEN /\ Count(OwnBrackets, <<"[">>) = 0
             /\ Count(OwnBrackets, <<"]">>) = 1
             /\ Last(OwnPushes) = <<"]">>
        ELSE /\ Head(OwnPushes) = <<"[">>
             /\ Head(pushes).own
             /\ Count(OwnBrackets, <<"[">>) = 1
             /\ Last(OwnPushes) = <<"]">>
             /\ Last(pushes).own
             /\ Count(OwnBrackets, <<"]">>) = 1
             /\ Count(OwnBrackets, <<"]", "[">>)
                  = (IF HasTrailingContent(ChainEnd(expr).args) THEN 1 ELSE 0)
             /\ DepthAfter(OwnBrackets, 0) = 0

\* A chain of two links ending in a body has been rendered from the top.
C10_Witness ==
    /\ op = "pretty_bracket_call"
    /\ ~chained
    /\ ChainLinks(expr) = 2
    /\ OwnBrackets = <<(<<"[">>), <<"]", "[">>, (<<"]">>)>>

(***************************************************************************)
(* C2 as stated (non-corruption boundary): for a call whose argument list  *)
(* is empty or whose last argument is not a positional content block,      *)
(* pretty_bracket_call emits neither " | " for an inner call nor a "]["    *)
(* body and falls back to the parenthesized rendering name(arg1, arg2).    *)
(***************************************************************************)
C2_Original ==
    (op = "pretty_bracket_call" /\ ~chained /\ ~HasTrailingContent(expr.args))
    =>  /\ Count(OwnPushes, Pipe) = 0
        /\ Count(OwnPushes, <<"]", "[">>) = 0
        /\ p = expr.name \o <<"(">>
                \o join(EachArgument(expr.args), CommaSpace) \o <<")">>

(***************************************************************************)
(* C2 amended: for such a call pretty_bracket_call pushes neither " | "    *)
(* for an inner call nor "][", and renders the bracket header alone: the   *)
(* opening ("[", or " | " when chained), the name, then, when there are    *)
(* arguments, a space and all arguments joined by ", ", then "]".          *)
(***************************************************************************)
C2_BracketHeader ==
    (op = "pretty_bracket_call" /\ ~HasTrailingContent(expr.args))
    =>  /\ Count(OwnPushes, Pipe) = (IF chained THEN 1 ELSE 0)
        /\ Count(OwnPushes, <<"]", "[">>) = 0
        /\ p = Opening(chained) \o expr.name
                \o (IF expr.args = <<>> THEN <<>>
                    ELSE <<" ">> \o join(EachArgument(expr.args), CommaSpace))
                \o <<"]">>

\* [v [f], 1]: a content argument that is not the last one.
C2_Witness ==
    /\ op = "pretty_bracket_call"
    /\ ~chained
    /\ expr = CallVF1
    /\ p = <<"[", "v", " ", "[", "f", "]", ",", " ", "1", "]">>

(***************************************************************************)
(* C3 as stated: Expr::pretty on a call whose last argument is a           *)
(* positional content block produces the bracket form beginning "[name".   *)
(***************************************************************************)
C3_Original ==
    (op = "Expr_pretty" /\ expr.kind = "Call" /\ HasTrailingContent(expr.args))
    => StartsWith(p, <<"[">> \o expr.name)

(***************************************************************************)
(* C3 amended: Expr::pretty on a call always produces the parenthesized    *)
(* form name(arg1, arg2), a trailing positional content block included as  *)
(* an ordinary argument; the bracket form beginning "[name" is what        *)
(* Expr::pretty produces for a content block whose only node is the call.  *)
(***************************************************************************)
C3_ParenForm ==
    /\ (op = "Expr_pretty" /\ expr.kind = "Call")
        => p = expr.name \o <<"(">>
               \o join(EachArgument(expr.args), CommaSpace) \o <<")">>
    /\ (op = "Expr_pretty" /\ expr.kind = "Content" /\ IsSingleCall(expr.tree))
        => StartsWith(p, <<"[">> \o expr.tree[1].expr.name)

\* v([f]): the call of [v | f] rendered in expression position.
C3_Witness ==
    /\ op = "Expr_pretty"
    /\ expr = CallVF
    /\ HasTrailingContent(expr.args)
    /\ p = <<"v", "(", "[", "f", "]", ")">>

(***************************************************************************)
(* C4 (content brace elision): pretty_content_expr renders "{" tree "}"    *)
(* except when the tree is exactly one node and that node is a call; then  *)
(* it adds no braces and the output is pretty_bracket_call(call, false).   *)
(* Trees of zero nodes, of two or more, or of one non-call node keep the   *)
(* braces.  The dictionary value content{call f} renders (func: [f]).      *)
(***************************************************************************)
C4_BraceElision ==
    /\ (op = "pretty_content_expr")
        => IF Len(expr.tree) = 1 /\ expr.tree[1].nkind = "Expr"
              /\ expr.tree[1].expr.kind = "Call"
           THEN /\ p = pretty_bracket_call(expr.tree[1].expr, FALSE)
                /\ StartsWith(p, <<"[">> \o expr.tree[1].expr.name)
                /\ Last(p) = "]"
           ELSE p = <<"{">> \o Tree_pretty(expr.tree) \o <<"}">>
    /\ (op = "Expr_pretty" /\ expr = Expr_Dict(<<Named(func, ContentF)>>))
        => p = <<"(", "f", "u", "n", "c", ":", " ", "[", "f", "]", ")">>

C4_Witness ==
    /\ op = "pretty_content_expr"
    /\ expr = ContentF
    /\ p = <<"[", "f", "]">>

(***************************************************************************)
(* What follows the name and the leading arguments of a call whose last    *)
(* argument is a positional content block: the chain or the body.          *)
(***************************************************************************)
ChainOrBody(e) ==
    IF IsChainCall(e)
    THEN pretty_bracket_call(InnerCall(e), TRUE)
    ELSE <<"]", "[">> \o Tree_pretty(Last(e.args).expr.tree) \o <<"]">>

(***************************************************************************)
(* C7 as stated (leading arguments): the arguments before a trailing       *)
(* positional content block are rendered after the name, in call order,    *)
(* separated by a space from the name and from each other; with no leading *)
(* argument nothing stands between the name and " | " or "][".             *)
(***************************************************************************)
C7_Original ==
    (op = "pretty_bracket_call" /\ HasTrailingContent(expr.args))
    => p = Opening(chained) \o expr.name
           \o (IF Len(expr.args) > 1
               THEN <<" ">> \o join(EachArgument(Front(expr.args)), <<" ">>)
               ELSE <<>>)
           \o ChainOrBody(expr)

(***************************************************************************)
(* C7 amended: the leading arguments are rendered after the name, in call  *)
(* order, separated from the name by one space and from each other by      *)
(* ", "; with no leading argument nothing stands between the name and      *)
(* " | " or "][".                                                          *)
(***************************************************************************)
C7_LeadingArguments ==
    (op = "pretty_bracket_call" /\ HasTrailingContent(expr.args))
    => /\ p = Opening(chained) \o expr.name
              \o (IF Len(expr.args) > 1
                  THEN <<" ">>
                       \o join([i \in 1..(Len(expr.args) - 1) |->
                                       Argument_pretty(expr.args[i])],
                                    CommaSpace)
                  ELSE <<>>)
              \o ChainOrBody(expr)
       /\ \/ StartsWith(ChainOrBody(expr), Pipe)
          \/ StartsWith(ChainOrBody(expr), <<"]", "[">>)

\* [a 1, k: 2][Hi]: two leading arguments before a body.
C7_Witness ==
    /\ op = "pretty_bracket_call"
    /\ ~chained
    /\ Len(expr.args) = 3
    /\ p = <<"[", "a", " ", "1", ",", " ", "k", ":", " ", "2", "]", "[",
             "H", "i", "]">>

(***************************************************************************)
(* C8 (single-element array): an array renders "(" , its elements in order *)
(* joined by ", ", and ")" with a "," right before the ")" exactly when it *)
(* has one element; (-5,) and (1, 2, 3) are renderings.                    *)
(***************************************************************************)
C8_ArrayForm ==
    (op \in {"Expr_pretty", "ExprArray_pretty"} /\ expr.kind = "Array")
    => /\ p = <<"(">>
              \o join([i \in 1..Len(expr.items) |->
                              Expr_pretty(expr.items[i])], CommaSpace)
              \o (IF Len(expr.items) = 1 THEN <<",">> ELSE <<>>)
              \o <<")">>
       /\ EndsWith(p, <<",", ")">>) <=> (Len(expr.items) = 1)
       /\ (expr.items = <<Expr_Unary("Neg", Expr_Int(5))>>
           => p = <<"(", "-", "5", ",", ")">>)
       /\ (expr.items = <<Expr_Int(1), Expr_Int(2), Expr_Int(3)>>
           => p = <<"(", "1", ",", " ", "2", ",", " ", "3", ")">>)
       /\ (expr.items = <<>> => p = <<"(", ")">>)

C8_Witness ==
    /\ op = "Expr_pretty"
    /\ expr = Expr_Array(<<Expr_Unary("Neg", Expr_Int(5))>>)
    /\ p = <<"(", "-", "5", ",", ")">>

(***************************************************************************)
(* C9 (empty dictionary): a dictionary renders (:) exactly when it has no  *)
(* pair; otherwise "(" , its "key: value" pairs in stored order joined by  *)
(* ", ", and ")" with no trailing comma; no dictionary renders to the text *)
(* of an array.                                                            *)
(***************************************************************************)
ArrayTexts == {ExprArray_pretty(a.items) : a \in Arrays}

C9_DictForm ==
    (op \in {"Expr_pretty", "ExprDict_pretty"} /\ expr.kind = "Dict")
    => /\ (p = <<"(", ":", ")">>) <=> (expr.pairs = <<>>)
       /\ expr.pairs # <<>>
          => /\ p = <<"(">>
                    \o join([i \in 1..Len(expr.pairs) |->
                                    expr.pairs[i].name \o <<":", " ">>
                                    \o Expr_pretty(expr.pairs[i].expr)],
                                 CommaSpace)
                    \o <<")">>
             /\ ~EndsWith(p, <<",", ")">>)
       /\ p \notin ArrayTexts
       /\ (expr.pairs = <<Named(percent, Expr_Percent(50))>>
           => p = <<"(", "p", "e", "r", "c", "e", "n", "t", ":", " ", "5",
                    "%", ")">>)

C9_Witness ==
    /\ op = "Expr_pretty"
    /\ expr = Expr_Dict(<<>>)
    /\ p = <<"(", ":", ")">>

(***************************************************************************)
(* C5 (round trip): rendering is injective on trees: two structurally      *)
(* different Expr trees, in particular two unary/binary operation trees    *)
(* over the same leaves with different grouping, never render to the same  *)
(* text.                                                                   *)
(***************************************************************************)
C5_Injective ==
    (op = "Expr_pretty" /\ expr \in OpTrees)
    => \A other \in OpTrees : other # expr => Expr_pretty(other) # p

====
